---- MODULE Spec2Model ----
(***************************************************************************)
(* Model of hw/core/generic-loader.c: the "generic loader" device.         *)
(*                                                                         *)
(* One device instance (GenericLoaderState s) lives in a host machine with *)
(* numCpus CPUs.  The host sets the device's properties, then realizes it  *)
(* (generic_loader_realize); machine resets dispatch the reset callbacks   *)
(* held by the host's reset registry (generic_loader_reset), and the       *)
(* device may be unrealized (generic_loader_unrealize).                    *)
(*                                                                         *)
(* A uint64_t is kept as its 8 bytes, most significant first (TLC's        *)
(* integers are 32 bits wide).  A C string is a sequence of characters;    *)
(* a NULL char* is NullStr.                                                *)
(***************************************************************************)
EXTENDS Integers, Sequences, FiniteSets, TLC

\* ------------------------------------------------------------------ bounds

\* Largest number of CPUs the host machine may have (0..MaxCpus).
MaxCpus == 1
\* Largest data-len property value tried (the property is a uint8).
MaxDataLen == 9
\* Bytes of each modelled address space; accesses beyond it are unmapped.
MemSize == 11

\* -------------------------------------------------------- program constants

\* #define CPU_NONE 0xFFFFFFFF, as the 32-bit pattern read as a signed int.
CPU_NONE == -1
\* for (int i = 0; i < 31; i++) / reg_num < 31: the register slots.
NumRegs == 31
\* sizeof(s->data) == sizeof(uint64_t).
SizeofData == 8
\* A NULL CPUState pointer (qemu_get_cpu found nothing, or first_cpu of a
\* machine without CPUs).
NoCpu == -2

\* ------------------------------------------------------------------ values

NullStr == <<"(null)">>

U64Zero == <<0, 0, 0, 0, 0, 0, 0, 0>>
\* 42
U64FortyTwo == <<0, 0, 0, 0, 0, 0, 0, 42>>
\* 0x1122334455667788
U64Pattern == <<17, 34, 51, 68, 85, 102, 119, 136>>

Reverse(q) == [i \in 1..Len(q) |-> q[Len(q) + 1 - i]]

\* bswap64 on a value kept as its bytes, most significant first.
bswap64(v) == Reverse(v)

\* cpu_to_be64 / cpu_to_le64: the identity or a byte swap, by host order.
cpu_to_be64(hostBigEndian, v) == IF hostBigEndian THEN v ELSE bswap64(v)
cpu_to_le64(hostBigEndian, v) == IF hostBigEndian THEN bswap64(v) ELSE v

\* The bytes of a uint64_t object in host memory, lowest address first:
\* what (uint8_t *)&s->data and memcpy(buf, &x, 8) see.
HostBytes(hostBigEndian, v) == IF hostBigEndian THEN v ELSE Reverse(v)

\* ------------------------------------------------- sscanf(s->reg, "r%d", ..)

Digits == {"0", "1", "2", "3", "4", "5", "6", "7", "8", "9"}
DigitVal(c) ==
    CASE c = "0" -> 0 [] c = "1" -> 1 [] c = "2" -> 2 [] c = "3" -> 3
      [] c = "4" -> 4 [] c = "5" -> 5 [] c = "6" -> 6 [] c = "7" -> 7
      [] c = "8" -> 8 [] c = "9" -> 9

RECURSIVE SkipSpace(_, _)
SkipSpace(str, i) ==
    IF i <= Len(str) /\ str[i] = " " THEN SkipSpace(str, i + 1) ELSE i

RECURSIVE ScanDigits(_, _, _)
\* The decimal value of the longest run of digits of str from position i on,
\* continuing the value acc.
ScanDigits(str, i, acc) ==
    IF i <= Len(str) /\ str[i] \in Digits
    THEN ScanDigits(str, i + 1, acc * 10 + DigitVal(str[i]))
    ELSE acc

\* sscanf(str, "r%d", &reg_num): the literal 'r', then %d (leading white
\* space, an optional sign, at least one digit; what follows the digits is
\* left unread).  n is sscanf's return value, val the converted number.
SscanfRegister(str) ==
    IF Len(str) = 0 \/ str[1] # "r"
    THEN [n |-> 0, val |-> 0]
    ELSE LET i == SkipSpace(str, 2)
             signed == i <= Len(str) /\ str[i] \in {"-", "+"}
             j == IF signed THEN i + 1 ELSE i
         IN  IF j <= Len(str) /\ str[j] \in Digits
             THEN [n |-> 1,
                   val |-> IF signed /\ str[i] = "-"
                           THEN 0 - ScanDigits(str, j, 0)
                           ELSE ScanDigits(str, j, 0)]
             ELSE [n |-> 0, val |-> 0]

\* --------------------------------------------------------------- the inputs

AddrInputs == {0, 2}
DataInputs == {U64Zero, U64FortyTwo, U64Pattern}
DataLenInputs == 0..MaxDataLen
CpuNumInputs == {CPU_NONE} \cup (0..MaxCpus)
RegInputs == {NullStr, <<"r", "2">>, <<"r", "3", "1">>, <<"b", "a", "d">>}
FileInputs == {NullStr, <<"k">>}

\* The image the file holds: where a format with load addresses puts its
\* bytes, and the entry point the loader of each such format reports for it.
Image ==
    [base |-> 4, entry |-> [elf |-> 5, uimage |-> 6, hex |-> 7],
     bytes |-> <<170, 187>>]

\* -------------------------------------------------------------------- state

VARIABLES
    cfg,          \* the properties as the host set them (never changes)
    s,            \* GenericLoaderState
    dev,          \* "created" | "realizing" | "realized" | "failed" | "unrealized"
    err,          \* what realize put in *errp ("none": nothing)
    mode,         \* the branch of the option checks realize took
    registry,     \* entries (generic_loader_reset, dev) in the reset registry
    proc,         \* "running" | "aborted" (assert) | "crashed" (NULL dereference)
    numCpus,      \* CPUs of the machine, cpu_index 0 .. numCpus-1
    hostBE,       \* the host is big-endian
    ready,        \* phase_check(PHASE_MACHINE_READY)
    mem,          \* mem[as][a]: byte at address a of address space as
    pc,           \* pc[c]: program counter of CPU c
    regs,         \* regs[c][i]: the 8 bytes last written to register i of CPU c
    loads,        \* the image loaders realize called and the sizes they
                  \* returned, in order
    setupResets,  \* calls of generic_loader_reset made by realize itself
    dispatched,   \* calls of generic_loader_reset made by the last machine reset
    resetLog,     \* what the last call of generic_loader_reset did, in order
    lastOp,       \* the last step: "init" | "realize" | "reset" | "guest" | "unrealize"
    resetRun      \* machine resets since the last other step: 0, 1, 2 (or more)

vars == <<cfg, s, dev, err, mode, registry, proc, numCpus, hostBE, ready, mem,
          pc, regs, loads, setupResets, dispatched, resetLog, lastOp, resetRun>>

Regs == 0..(NumRegs - 1)
Cpus == 0..(MaxCpus - 1)
\* cpu->as of CPU c is address space c; address_space_memory, which the
\* loaders use for a NULL as, is address space MaxCpus.
AddressSpaceMemory == MaxCpus
AddressSpaces == 0..MaxCpus
Addrs == 0..(MemSize - 1)

\* The CPU's architectural reset vector: no address a configuration names.
ResetPc == MemSize + 1
\* What a running guest leaves behind.
GuestPc == MemSize + 2
GuestReg == <<238, 238, 238, 238, 238, 238, 238, 238>>

\* A machine being created: memory blank, CPUs at their reset values.
FreshMachine ==
    [mem |-> [as \in AddressSpaces |-> [a \in Addrs |-> 0]],
     pc |-> [c \in Cpus |-> ResetPc],
     regs |-> [c \in Cpus |-> [i \in Regs |-> U64Zero]]]
\* A machine the guest has run on.
GuestMachine ==
    [mem |-> [as \in AddressSpaces |-> [a \in Addrs |-> 238]],
     pc |-> [c \in Cpus |-> GuestPc],
     regs |-> [c \in Cpus |-> [i \in Regs |-> GuestReg]]]
\* The machine a device is realized into: one being created, or, for a
\* device added after the machine became ready, one the guest has run on.
MachineBefore(machineReady) ==
    IF machineReady THEN GuestMachine ELSE FreshMachine

\* DEFINE_PROP_*: the properties and their defaults, with the values the
\* host's property system set; the other fields are zero-initialised.
NewDevice(addr, data, data_len, data_be, cpu_num, force_raw, reg, file) ==
    [addr |-> addr, data |-> data, data_len |-> data_len, data_be |-> data_be,
     cpu_num |-> cpu_num, force_raw |-> force_raw, reg |-> reg, file |-> file,
     set_pc |-> FALSE, cpu |-> NoCpu,
     register_defaults |-> [i \in Regs |-> U64Zero],
     has_register_defaults |-> [i \in Regs |-> FALSE]]

Init ==
    /\ \E addr \in AddrInputs, data \in DataInputs, data_len \in DataLenInputs,
          data_be \in BOOLEAN, cpu_num \in CpuNumInputs, force_raw \in BOOLEAN,
          reg \in RegInputs, file \in FileInputs :
            /\ s = NewDevice(addr, data, data_len, data_be, cpu_num, force_raw,
                             reg, file)
            /\ cfg = [addr |-> addr, data |-> data, data_len |-> data_len,
                       data_be |-> data_be, cpu_num |-> cpu_num,
                       force_raw |-> force_raw, reg |-> reg, file |-> file]
    /\ dev = "created"
    /\ err = "none"
    /\ mode = "none"
    /\ registry = 0
    /\ proc = "running"
    /\ numCpus \in 0..MaxCpus
    /\ hostBE \in BOOLEAN
    /\ ready \in BOOLEAN
    /\ mem = MachineBefore(ready).mem
    /\ pc = MachineBefore(ready).pc
    /\ regs = MachineBefore(ready).regs
    /\ loads = <<>>
    /\ setupResets = 0
    /\ dispatched = 0
    /\ resetLog = <<>>
    /\ lastOp = "init"
    /\ resetRun = 0

\* The state a handler works on, and what it leaves; calls counts the calls
\* of generic_loader_reset made while it runs.
Ctx ==
    [s |-> s, err |-> err, mode |-> mode, registry |-> registry, proc |-> proc,
     mem |-> mem, pc |-> pc, regs |-> regs, loads |-> loads,
     calls |-> 0, log |-> resetLog]

\* A handler that returned early, or a process that died, does nothing more.
Halted(c) == c.err # "none" \/ c.proc # "running"

\* ---------------------------------------------------- the host collaborators

\* qemu_get_cpu(index): the CPU with that cpu_index, or NULL.
qemu_get_cpu(n, index) == IF index \in 0..(n - 1) THEN index ELSE NoCpu
\* first_cpu: the head of the CPU list, NULL for a machine without CPUs.
first_cpu(n) == IF n > 0 THEN 0 ELSE NoCpu

\* cpu_reset(cpu): the CPU's registers and program counter at reset values.
cpu_reset(c, cpu) ==
    [c EXCEPT !.pc[cpu] = ResetPc,
              !.regs[cpu] = [i \in Regs |-> U64Zero],
              !.log = Append(@, [op |-> "cpu_reset", arg |-> cpu])]

\* cc->set_pc(cpu, addr).
set_pc(c, cpu, addr) ==
    [c EXCEPT !.pc[cpu] = addr,
              !.log = Append(@, [op |-> "set_pc", arg |-> addr])]

\* cc->gdb_write_register(cpu, buf, i): register i takes the 8 bytes of buf.
gdb_write_register(c, cpu, buf, i) ==
    [c EXCEPT !.regs[cpu][i] = buf,
              !.log = Append(@, [op |-> "gdb_write_register", arg |-> i])]

\* address_space_rw(as, addr, attrs, buf, len, true): the first len bytes of
\* buf to addr .. addr+len-1; bytes that fall outside the mapped range are
\* dropped (the call's result is not looked at).
address_space_write(m, as, addr, buf, len) ==
    [m EXCEPT ![as] = [a \in Addrs |->
                          IF a >= addr /\ a < addr + len
                          THEN buf[a - addr + 1] ELSE @[a]]]

\* ------------------------------------------------------ generic_loader_reset

\* if (s->set_pc) { cpu_reset(s->cpu); cc->set_pc(s->cpu, s->addr); }
\* CPU_GET_CLASS and cpu_reset dereference s->cpu: a NULL one ends the process.
ResetSetPc(c) ==
    IF c.proc # "running" \/ ~c.s.set_pc THEN c
    ELSE IF c.s.cpu = NoCpu THEN [c EXCEPT !.proc = "crashed"]
    ELSE set_pc(cpu_reset(c, c.s.cpu), c.s.cpu, c.s.addr)

RECURSIVE ResetRegistersFrom(_, _, _)
\* The loop body for i, i+1, .. 30: memcpy(buf, &s->register_defaults[i], 8)
\* and cc->gdb_write_register(s->cpu, buf, i) for each populated slot.
ResetRegistersFrom(c, hostBigEndian, i) ==
    IF i >= NumRegs \/ c.proc # "running" THEN c
    ELSE IF ~c.s.has_register_defaults[i]
         THEN ResetRegistersFrom(c, hostBigEndian, i + 1)
    ELSE IF c.s.cpu = NoCpu THEN [c EXCEPT !.proc = "crashed"]
    ELSE ResetRegistersFrom(
             gdb_write_register(c, c.s.cpu,
                 HostBytes(hostBigEndian, c.s.register_defaults[i]), i),
             hostBigEndian, i + 1)

\* for (int i = 0; i < 31; i++) ...
ResetRegisters(c, hostBigEndian) == ResetRegistersFrom(c, hostBigEndian, 0)

\* assert(s->data_len < sizeof(s->data))
ResetAssertHolds(st) == st.data_len < SizeofData

\* Mutant: the byte order is converted at every reset, not once in realize.
ResetLiteralWriteConverting(c, hostBigEndian) ==
    IF c.proc # "running" \/ c.s.data_len = 0 THEN c
    ELSE IF ~ResetAssertHolds(c.s) THEN [c EXCEPT !.proc = "aborted"]
    ELSE IF c.s.cpu = NoCpu THEN [c EXCEPT !.proc = "crashed"]
    ELSE LET data == IF c.s.data_be THEN cpu_to_be64(hostBigEndian, c.s.data)
                     ELSE cpu_to_le64(hostBigEndian, c.s.data)
         IN  [c EXCEPT
                !.s.data = data,
                !.mem = address_space_write(c.mem, c.s.cpu, c.s.addr,
                            HostBytes(hostBigEndian, data), c.s.data_len),
                !.log = Append(@, [op |-> "address_space_rw",
                                   arg |-> c.s.addr])]

\* Mutant: all sizeof(s->data) bytes of the value are written.
ResetLiteralWriteWhole(c, hostBigEndian) ==
    IF c.proc # "running" \/ c.s.data_len = 0 THEN c
    ELSE IF ~ResetAssertHolds(c.s) THEN [c EXCEPT !.proc = "aborted"]
    ELSE IF c.s.cpu = NoCpu THEN [c EXCEPT !.proc = "crashed"]
    ELSE [c EXCEPT
            !.mem = address_space_write(c.mem, c.s.cpu, c.s.addr,
                        HostBytes(hostBigEndian, c.s.data), SizeofData),
            !.log = Append(@, [op |-> "address_space_rw", arg |-> c.s.addr])]
\* if (s->data_len) { assert(..); address_space_rw(s->cpu->as, s->addr, attrs,
\*                                   (uint8_t *)&s->data, s->data_len, true); }
ResetLiteralWrite(c, hostBigEndian) ==
    IF c.proc # "running" \/ c.s.data_len = 0 THEN c
    ELSE IF ~ResetAssertHolds(c.s) THEN [c EXCEPT !.proc = "aborted"]
    ELSE IF c.s.cpu = NoCpu THEN [c EXCEPT !.proc = "crashed"]
    ELSE [c EXCEPT
            !.mem = address_space_write(c.mem, c.s.cpu, c.s.addr,
                        HostBytes(hostBigEndian, c.s.data), c.s.data_len),
            !.log = Append(@, [op |-> "address_space_rw", arg |-> c.s.addr])]

\* Mutant: the register defaults are written before the CPU is reset.
generic_loader_resetRegistersFirst(c, hostBigEndian) ==
    ResetLiteralWrite(
        ResetSetPc(
            ResetRegisters([c EXCEPT !.log = <<>>, !.calls = @ + 1],
                           hostBigEndian)),
        hostBigEndian)
\* generic_loader_reset(opaque): one call, on the state c.
generic_loader_reset(c, hostBigEndian) ==
    ResetLiteralWrite(
        ResetRegisters(
            ResetSetPc([c EXCEPT !.log = <<>>, !.calls = @ + 1]),
            hostBigEndian),
        hostBigEndian)

\* ---------------------------------------------------- generic_loader_realize

\* Mutant: the test for literal data forgets data-len.
DataIntentWithoutLen(st) == st.data # U64Zero \/ st.data_be
\* s->data || s->data_len || s->data_be
DataIntent(st) == st.data # U64Zero \/ st.data_len # 0 \/ st.data_be
\* s->file
FileGiven(st) == st.file # NullStr
\* Mutant: the test looks at data, for which 0 is a valid value.
DataLenMissingTestsData(st) == st.data = U64Zero
\* !s->data_len
DataLenMissing(st) == st.data_len = 0
\* Mutants: the limit is off by one; the limit is taken in bits.
DataLenTooLongFromEight(st) == st.data_len >= 8
DataLenTooLongInBits(st) == st.data_len > 64
\* s->data_len > 8
DataLenTooLong(st) == st.data_len > 8
\* Mutant: an unset cpu-num is taken to be 0.
CpuNumMissingIsZero(st) == st.cpu_num = 0
\* s->cpu_num == CPU_NONE
CpuNumMissing(st) == st.cpu_num = CPU_NONE

\* The option checks: the error they end with ("none": accepted), the branch
\* taken and the set_pc they leave.
CheckOptions(st) ==
    IF DataIntent(st)
    THEN [mode |-> "DataWrite", set_pc |-> FALSE,
          err |-> IF FileGiven(st) THEN "file_with_data"
                  ELSE IF st.force_raw THEN "force_raw_with_data"
                  ELSE IF DataLenMissing(st) THEN "data_len_missing"
                  ELSE IF DataLenTooLong(st) THEN "data_len_too_long"
                  ELSE "none"]
    ELSE IF FileGiven(st) \/ st.force_raw
    THEN [mode |-> "ImageLoad",
          set_pc |-> ~DataIntent(st) /\ st.cpu_num # CPU_NONE,
          err |-> IF DataIntent(st) THEN "data_with_image" ELSE "none"]
    ELSE IF st.addr # 0
    THEN [mode |-> "SetPC",
          set_pc |-> ~DataIntent(st) /\ ~CpuNumMissing(st),
          err |-> IF DataIntent(st) THEN "data_with_pc"
                  ELSE IF CpuNumMissing(st) THEN "cpu_num_missing"
                  ELSE "none"]
    ELSE [mode |-> "none", set_pc |-> FALSE, err |-> "no_arguments"]

\* s->set_pc = false; and the option checks.
RealizeCheck(c) ==
    LET r == CheckOptions(c.s)
    IN  [c EXCEPT !.s.set_pc = r.set_pc, !.mode = r.mode, !.err = r.err]

\* qemu_register_reset_loader(generic_loader_reset, dev)
RealizeRegister(c) ==
    IF Halted(c) THEN c ELSE [c EXCEPT !.registry = @ + 1]

\* Mutant: the CPU is looked up even when the option checks have failed.
RealizeResolveCpuUnguarded(c, n) ==
    IF c.proc # "running" THEN c
    ELSE IF c.s.cpu_num # CPU_NONE
         THEN LET cpu == qemu_get_cpu(n, c.s.cpu_num)
              IN  [c EXCEPT !.s.cpu = cpu,
                            !.err = IF cpu = NoCpu THEN "nonexistent_cpu"
                                    ELSE @]
         ELSE [c EXCEPT !.s.cpu = first_cpu(n)]
\* The CPU: qemu_get_cpu(s->cpu_num), an error if there is none, or first_cpu.
RealizeResolveCpu(c, n) ==
    IF Halted(c) THEN c
    ELSE IF c.s.cpu_num # CPU_NONE
         THEN LET cpu == qemu_get_cpu(n, c.s.cpu_num)
              IN  [c EXCEPT !.s.cpu = cpu,
                            !.err = IF cpu = NoCpu THEN "nonexistent_cpu"
                                    ELSE "none"]
         ELSE [c EXCEPT !.s.cpu = first_cpu(n)]

\* What the four image loaders may each report for the file: its size, or a
\* negative size for a file they cannot load.
LoaderOutcomes ==
    [elf : BOOLEAN, uimage : BOOLEAN, hex : BOOLEAN, raw : BOOLEAN]
LoaderSize(ok) == IF ok THEN Len(Image.bytes) ELSE 0 - 1

\* load_elf_as, load_uimage_as, load_targphys_hex_as: on success the image's
\* bytes are at its own load address in as, and entry is the entry point the
\* loader found; a loader that fails leaves entry as it was.
LoadStructured(c, name, ok, as) ==
    [c EXCEPT !.loads = Append(@, [name |-> name, size |-> LoaderSize(ok)]),
              !.mem = IF ok
                      THEN address_space_write(@, as, Image.base, Image.bytes,
                                               Len(Image.bytes))
                      ELSE @]

\* load_image_targphys_as(s->file, s->addr, ram_size, as): on success the
\* file's bytes are at s->addr in as.
LoadRaw(c, ok, as) ==
    [c EXCEPT !.loads = Append(@, [name |-> "raw", size |-> LoaderSize(ok)]),
              !.mem = IF ok
                      THEN address_space_write(@, as, c.s.addr, Image.bytes,
                                               Len(Image.bytes))
                      ELSE @]

\* Mutant: the boot-image loader is called whatever load_elf_as returned.
RealizeLoadAlwaysUimage(c, lo) ==
    IF Halted(c) \/ ~FileGiven(c.s) THEN c
    ELSE LET as == IF c.s.cpu # NoCpu THEN c.s.cpu ELSE AddressSpaceMemory
             c1 == IF ~c.s.force_raw
                   THEN LoadStructured(c, "elf", lo.elf, as) ELSE c
             size1 == IF ~c.s.force_raw THEN LoaderSize(lo.elf) ELSE 0
             tryUimage == ~c.s.force_raw
             c2 == IF tryUimage
                   THEN LoadStructured(c1, "uimage", lo.uimage, as) ELSE c1
             size2 == IF tryUimage THEN LoaderSize(lo.uimage) ELSE size1
             tryHex == ~c.s.force_raw /\ size2 < 0
             c3 == IF tryHex
                   THEN LoadStructured(c2, "hex", lo.hex, as) ELSE c2
             size3 == IF tryHex THEN LoaderSize(lo.hex) ELSE size2
             entry == IF tryHex THEN Image.entry.hex
                      ELSE IF tryUimage THEN Image.entry.uimage
                      ELSE Image.entry.elf
             tryRaw == size3 < 0 \/ c.s.force_raw
             c4 == IF tryRaw THEN LoadRaw(c3, lo.raw, as)
                   ELSE [c3 EXCEPT !.s.addr = entry]
             size4 == IF tryRaw THEN LoaderSize(lo.raw) ELSE size3
         IN  IF size4 < 0 THEN [c4 EXCEPT !.err = "cannot_load_image"] ELSE c4
\* Mutant: s->addr stays the addr property whichever loader loaded the file.
RealizeLoadKeepsAddr(c, lo) ==
    IF Halted(c) \/ ~FileGiven(c.s) THEN c
    ELSE LET as == IF c.s.cpu # NoCpu THEN c.s.cpu ELSE AddressSpaceMemory
             c1 == IF ~c.s.force_raw
                   THEN LoadStructured(c, "elf", lo.elf, as) ELSE c
             size1 == IF ~c.s.force_raw THEN LoaderSize(lo.elf) ELSE 0
             tryUimage == ~c.s.force_raw /\ size1 < 0
             c2 == IF tryUimage
                   THEN LoadStructured(c1, "uimage", lo.uimage, as) ELSE c1
             size2 == IF tryUimage THEN LoaderSize(lo.uimage) ELSE size1
             tryHex == ~c.s.force_raw /\ size2 < 0
             c3 == IF tryHex
                   THEN LoadStructured(c2, "hex", lo.hex, as) ELSE c2
             size3 == IF tryHex THEN LoaderSize(lo.hex) ELSE size2
             tryRaw == size3 < 0 \/ c.s.force_raw
             c4 == IF tryRaw THEN LoadRaw(c3, lo.raw, as) ELSE c3
             size4 == IF tryRaw THEN LoaderSize(lo.raw) ELSE size3
         IN  IF size4 < 0 THEN [c4 EXCEPT !.err = "cannot_load_image"] ELSE c4
\* if (s->file) { .. }: the loaders in turn, s->addr = entry (as the loader
\* that succeeded, the last one called, left it) unless the raw loader ran,
\* and the error when the last one called failed.
RealizeLoad(c, lo) ==
    IF Halted(c) \/ ~FileGiven(c.s) THEN c
    ELSE LET as == IF c.s.cpu # NoCpu THEN c.s.cpu ELSE AddressSpaceMemory
             c1 == IF ~c.s.force_raw
                   THEN LoadStructured(c, "elf", lo.elf, as) ELSE c
             size1 == IF ~c.s.force_raw THEN LoaderSize(lo.elf) ELSE 0
             tryUimage == ~c.s.force_raw /\ size1 < 0
             c2 == IF tryUimage
                   THEN LoadStructured(c1, "uimage", lo.uimage, as) ELSE c1
             size2 == IF tryUimage THEN LoaderSize(lo.uimage) ELSE size1
             tryHex == ~c.s.force_raw /\ size2 < 0
             c3 == IF tryHex
                   THEN LoadStructured(c2, "hex", lo.hex, as) ELSE c2
             size3 == IF tryHex THEN LoaderSize(lo.hex) ELSE size2
             entry == IF tryHex THEN Image.entry.hex
                      ELSE IF tryUimage THEN Image.entry.uimage
                      ELSE Image.entry.elf
             tryRaw == size3 < 0 \/ c.s.force_raw
             c4 == IF tryRaw THEN LoadRaw(c3, lo.raw, as)
                   ELSE [c3 EXCEPT !.s.addr = entry]
             size4 == IF tryRaw THEN LoaderSize(lo.raw) ELSE size3
         IN  IF size4 < 0 THEN [c4 EXCEPT !.err = "cannot_load_image"] ELSE c4

\* Convert the data endiannes: cpu_to_be64 or cpu_to_le64 by s->data_be.
RealizeConvert(c, hostBigEndian) ==
    IF Halted(c) THEN c
    ELSE [c EXCEPT !.s.data = IF c.s.data_be
                              THEN cpu_to_be64(hostBigEndian, @)
                              ELSE cpu_to_le64(hostBigEndian, @)]

\* Mutant: realize calls the reset action whatever the machine's phase.
RealizeHotplugResetAlways(c, machineReady, hostBigEndian) ==
    IF Halted(c) THEN c
    ELSE generic_loader_reset(c, hostBigEndian)
\* if (phase_check(PHASE_MACHINE_READY)) generic_loader_reset(dev);
RealizeHotplugReset(c, machineReady, hostBigEndian) ==
    IF Halted(c) \/ ~machineReady THEN c
    ELSE generic_loader_reset(c, hostBigEndian)

\* sscanf(s->reg, "r%d", &reg_num) == 1 && reg_num >= 0 && reg_num < 31
RegisterNameOk(str) ==
    LET r == SscanfRegister(str)
    IN  r.n = 1 /\ r.val >= 0 /\ r.val < NumRegs

\* Store the CPU register default if specified.
RealizeStoreRegister(c) ==
    IF Halted(c) \/ c.s.reg = NullStr THEN c
    ELSE IF RegisterNameOk(c.s.reg)
         THEN LET reg_num == SscanfRegister(c.s.reg).val
              IN  [c EXCEPT !.s.register_defaults[reg_num] = c.s.data,
                            !.s.has_register_defaults[reg_num] = TRUE]
         ELSE [c EXCEPT !.err = "unsupported_register"]

\* generic_loader_realize(dev, errp), in the order of its statements.
generic_loader_realize(c, n, hostBigEndian, machineReady, lo) ==
    RealizeStoreRegister(
      RealizeHotplugReset(
        RealizeConvert(
          RealizeLoad(RealizeResolveCpu(RealizeRegister(RealizeCheck(c)), n),
                      lo),
          hostBigEndian),
        machineReady, hostBigEndian))

\* ----------------------------------------------- generic_loader_unrealize

\* Mutant: unrealize leaves the registry as it is.
generic_loader_unrealizeKeepsEntry(c) == c
\* qemu_unregister_reset_loader(generic_loader_reset, dev): the first entry
\* for (generic_loader_reset, dev), if there is one, leaves the registry.
generic_loader_unrealize(c) ==
    [c EXCEPT !.registry = IF @ > 0 THEN @ - 1 ELSE 0]

\* ------------------------------------------------------------------ actions

Install(c) ==
    /\ s' = c.s
    /\ err' = c.err
    /\ mode' = c.mode
    /\ registry' = c.registry
    /\ proc' = c.proc
    /\ mem' = c.mem
    /\ pc' = c.pc
    /\ regs' = c.regs
    /\ loads' = c.loads
    /\ resetLog' = c.log

\* The reports to choose among: those of the loaders realize gets to call.
LoaderChoices(st) ==
    IF FileGiven(st) /\ CheckOptions(st).err = "none"
    THEN LoaderOutcomes
    ELSE {[elf |-> FALSE, uimage |-> FALSE, hex |-> FALSE, raw |-> FALSE]}

\* The host realizes the device (at machine creation, or device_add on a
\* running machine).
Realize ==
    /\ dev = "created"
    /\ proc = "running"
    /\ \E lo \in LoaderChoices(s) :
        LET c == generic_loader_realize(Ctx, numCpus, hostBE, ready, lo)
        IN  /\ Install(c)
            /\ setupResets' = c.calls
            /\ dev' = IF c.proc # "running" THEN "realizing"
                      ELSE IF c.err # "none" THEN "failed" ELSE "realized"
    /\ lastOp' = "realize"
    /\ resetRun' = 0
    /\ UNCHANGED <<cfg, numCpus, hostBE, ready, dispatched>>

RECURSIVE Dispatch(_, _, _)
\* The registry's entries for this device are called one after the other; n
\* are left to call.
Dispatch(c, hostBigEndian, n) ==
    IF n = 0 \/ c.proc # "running" THEN c
    ELSE Dispatch(generic_loader_reset(c, hostBigEndian), hostBigEndian, n - 1)

\* A machine reset: the host calls every registered reset callback.  The
\* callback of a device whose realize failed after registering runs on the
\* fields that realize left.
MachineReset ==
    /\ dev # "created"
    /\ proc = "running"
    /\ LET c == Dispatch([Ctx EXCEPT !.log = <<>>], hostBE, registry)
       IN  /\ Install(c)
           /\ dispatched' = c.calls
    /\ lastOp' = "reset"
    /\ resetRun' = IF resetRun >= 2 THEN 2 ELSE resetRun + 1
    /\ UNCHANGED <<cfg, dev, numCpus, hostBE, ready, setupResets>>

\* The guest runs: it leaves its own values in memory and in the CPUs.
GuestRun ==
    /\ dev # "created"
    /\ proc = "running"
    /\ lastOp # "guest"
    /\ mem' = GuestMachine.mem
    /\ pc' = GuestMachine.pc
    /\ regs' = GuestMachine.regs
    /\ lastOp' = "guest"
    /\ resetRun' = 0
    /\ UNCHANGED <<cfg, s, dev, err, mode, registry, proc, numCpus, hostBE,
                   ready, loads, setupResets, dispatched, resetLog>>

\* The host unrealizes a realized device.
Unrealize ==
    /\ dev = "realized"
    /\ proc = "running"
    /\ Install(generic_loader_unrealize(Ctx))
    /\ dev' = "unrealized"
    /\ lastOp' = "unrealize"
    /\ resetRun' = 0
    /\ UNCHANGED <<cfg, numCpus, hostBE, ready, dispatched, setupResets>>

Next == Realize \/ MachineReset \/ GuestRun \/ Unrealize

Spec == Init /\ [][Next]_vars

\* ------------------------------------------------------------- the claims

\* The error kinds of the design document, by the message realize sets.
ConflictingOptions ==
    {"file_with_data", "force_raw_with_data", "data_with_image", "data_with_pc"}
MissingRequiredOption == {"data_len_missing", "cpu_num_missing", "no_arguments"}
OutOfRange == {"data_len_too_long"}

\* realize has run / returned an error / returned without one.
SetupDone == dev # "created"
SetupFailed == dev = "failed"
SetupSucceeded == dev \in {"realized", "unrealized"}

\* The configuration asks for no literal data: none of data, data-len, data-be.
NoLiteralFields == cfg.data = U64Zero /\ cfg.data_len = 0 /\ ~cfg.data_be
\* The configuration names no image: neither file nor force-raw.
NoImageFields == cfg.file = NullStr /\ ~cfg.force_raw
\* cpu-num is unset or the index of a CPU of the machine.
CpuResolvable == cfg.cpu_num = CPU_NONE \/ cfg.cpu_num \in 0..(numCpus - 1)
\* reg is unset or one of the names tried that is 'r' and an index in 0..30.
RegAcceptable == cfg.reg \in {NullStr, <<"r", "2">>}

\* The len bytes at addr .. addr+len-1 of address space as.
ReadBack(as, addr, len) == [k \in 1..len |-> mem[as][addr + k - 1]]
\* The len most significant bytes of v, most significant first (big-endian),
\* or its len least significant ones, least significant first.
ExpectedLiteral(v, len, bigEndian) ==
    IF bigEndian THEN [k \in 1..len |-> v[k]]
    ELSE [k \in 1..len |-> v[SizeofData + 1 - k]]

\* C1: after a setup that ended with an error, the reset action is not in
\* the reset registry.
C1_FailedSetupNotRegistered == SetupFailed => registry = 0

\* C2: right after a setup that ended with an error, memory, the program
\* counters and the registers are what they were before it.
C2_FailedSetupNoSideEffects ==
    (SetupFailed /\ lastOp = "realize")
        => /\ mem = MachineBefore(ready).mem
           /\ pc = MachineBefore(ready).pc
           /\ regs = MachineBefore(ready).regs

\* C3: for a device set up in DataWrite mode (data-len in 1..8) on a resolved
\* CPU, a machine reset's call of the reset action runs to completion, no
\* assertion failing, and leaves data-len bytes of the literal at addr.
C3_LiteralResetCompletes ==
    (dev = "realized" /\ mode = "DataWrite" /\ lastOp = "reset"
        /\ cfg.data_len \in 1..8 /\ s.cpu # NoCpu)
        => /\ proc = "running"
           /\ dispatched = 1
           /\ ReadBack(s.cpu, s.addr, s.data_len)
                  = SubSeq(HostBytes(hostBE, s.data), 1, s.data_len)

C5_ImageAndLiteralConflict ==
    (SetupDone /\ cfg.file # NullStr /\ cfg.data_len # 0)
        => /\ SetupFailed
           /\ err \in ConflictingOptions
           /\ err = "file_with_data"
C5_Witness ==
    /\ SetupFailed /\ cfg.file # NullStr /\ cfg.data_len = 4
    /\ cfg.force_raw /\ cfg.cpu_num = 0 /\ err = "file_with_data"

\* C6 as stated: with data-len above 8, setup fails with the OutOfRange
\* error, whatever the other options.
C6_Original ==
    (SetupDone /\ cfg.data_len > 8) => SetupFailed /\ err \in OutOfRange

\* C6 amended: with data-len above 8, setup fails; the error is the
\* OutOfRange one when neither file nor force-raw is set, and the
\* ConflictingOptions one (file first, then force-raw) when one is.
C6_TooLongFails ==
    (SetupDone /\ cfg.data_len > 8)
        => /\ SetupFailed
           /\ registry = 0
           /\ err = IF cfg.file # NullStr THEN "file_with_data"
                    ELSE IF cfg.force_raw THEN "force_raw_with_data"
                    ELSE "data_len_too_long"
C6_Witness ==
    SetupFailed /\ cfg.data_len > 8 /\ NoImageFields /\ err \in OutOfRange

\* C7 as stated: with a non-zero addr, no cpu-num and no literal-data
\* fields, setup fails with a MissingRequiredOption error.
C7_Original ==
    (SetupDone /\ cfg.addr # 0 /\ cfg.cpu_num = CPU_NONE /\ NoLiteralFields)
        => SetupFailed /\ err \in MissingRequiredOption

\* C7 amended: with a non-zero addr, no cpu-num, no literal-data fields and
\* neither file nor force-raw, setup fails with the MissingRequiredOption
\* error that cpu-num must be given, and registers nothing.
C7_AddrWithoutCpuFails ==
    (SetupDone /\ cfg.addr # 0 /\ cfg.cpu_num = CPU_NONE /\ NoLiteralFields
        /\ NoImageFields)
        => /\ SetupFailed
           /\ err \in MissingRequiredOption
           /\ err = "cpu_num_missing"
           /\ registry = 0
C7_Witness ==
    /\ SetupFailed /\ cfg.addr # 0 /\ cfg.cpu_num = CPU_NONE
    /\ NoLiteralFields /\ NoImageFields /\ err = "cpu_num_missing"

\* C8: after a successful setup with data-len L in 1..8 on a resolved CPU
\* and a machine reset, the L bytes at addr are the L most significant bytes
\* of data, most significant first, if data-be is set, and its L least
\* significant bytes, least significant first, if not.
C8_RoundTrip ==
    (dev = "realized" /\ lastOp = "reset" /\ cfg.data_len \in 1..8
        /\ s.cpu # NoCpu)
        => ReadBack(s.cpu, cfg.addr, cfg.data_len)
               = ExpectedLiteral(cfg.data, cfg.data_len, cfg.data_be)

\* C9: for a successfully set-up device, a machine reset that directly
\* follows a machine reset leaves memory, the program counters and the
\* registers as the first one left them.
C9_ResetIdempotent ==
    [][(dev = "realized" /\ lastOp = "reset" /\ lastOp' = "reset")
          => (mem' = mem /\ pc' = pc /\ regs' = regs)]_vars
C9_Witness ==
    /\ dev = "realized" /\ resetRun = 2 /\ proc = "running" /\ dispatched = 1
    /\ s.has_register_defaults[2] /\ cfg.data_len = 4 /\ cfg.data = U64Pattern

\* The configuration of C10: reg "r2", data 42, cpu-num 0, nothing else.
C10_Config ==
    /\ cfg.reg = <<"r", "2">> /\ cfg.data = U64FortyTwo /\ cfg.cpu_num = 0
    /\ cfg.data_len = 0 /\ ~cfg.data_be /\ cfg.addr = 0 /\ NoImageFields
    /\ numCpus >= 1

\* C10 as stated: that configuration passes setup in DataWrite mode with
\* register slot 2's default seeded to 42, and a reset writes it to
\* register 2 of CPU 0.
C10_Original ==
    (SetupDone /\ C10_Config)
        => /\ SetupSucceeded
           /\ mode = "DataWrite"
           /\ s.has_register_defaults[2]
           /\ s.register_defaults[2] = cpu_to_le64(hostBE, U64FortyTwo)
           /\ lastOp = "reset" => regs[0][2] = Reverse(U64FortyTwo)

\* C10 amended: that configuration fails setup with the MissingRequiredOption
\* error that data-len must accompany data; no register default is seeded,
\* nothing is registered, and no reset writes 42 to register 2 of CPU 0.
C10_DataWithoutLenFails ==
    (SetupDone /\ C10_Config)
        => /\ SetupFailed
           /\ err = "data_len_missing"
           /\ err \in MissingRequiredOption
           /\ registry = 0
           /\ \A i \in Regs : ~s.has_register_defaults[i]
           /\ lastOp = "reset" => dispatched = 0
           /\ regs[0][2] # Reverse(U64FortyTwo)
C10_Witness == C10_Config /\ SetupFailed /\ lastOp = "reset" /\ resetRun = 1

\* C11: a setup that succeeds has called the reset action itself exactly once
\* if the machine was already ready and not at all if it was not, and in both
\* cases has left it registered (once) for the machine resets to come.
C11_LateAttachment ==
    SetupSucceeded
        => /\ setupResets = (IF ready THEN 1 ELSE 0)
           /\ dev = "realized" => registry = 1
           /\ (lastOp = "realize" /\ ~ready) => resetLog = <<>>
C11_Witness ==
    /\ dev = "realized" /\ lastOp = "realize" /\ ready /\ setupResets = 1
    /\ registry = 1 /\ resetLog # <<>>

\* The register the configuration's reg names, when it names one.
C12_RegNum == SscanfRegister(cfg.reg).val

\* C12: after every call of the reset action on a successfully set-up device
\* whose reg names register N in 0..30, the call realize makes itself on a
\* ready machine included, register N of the target CPU holds the converted
\* literal.
C12_RegisterDefaultApplied ==
    (dev = "realized" /\ proc = "running" /\ s.cpu # NoCpu
        /\ cfg.reg # NullStr /\ RegisterNameOk(cfg.reg)
        /\ (lastOp = "reset" \/ (lastOp = "realize" /\ setupResets = 1)))
        => regs[s.cpu][C12_RegNum] = HostBytes(hostBE, s.data)

\* C13: from a successful setup to the teardown the reset action is in the
\* registry exactly once and each machine reset calls it exactly once; after
\* the teardown it is not in the registry and a machine reset calls it not
\* at all and does nothing of what it does.
C13_RegisteredUntilTeardown ==
    /\ dev = "realized"
          => /\ registry = 1
             /\ lastOp = "reset" => dispatched = 1
    /\ dev = "unrealized"
          => /\ registry = 0
             /\ lastOp = "reset" => (dispatched = 0 /\ resetLog = <<>>)
C13_Witness ==
    /\ dev = "unrealized" /\ lastOp = "reset" /\ registry = 0
    /\ dispatched = 0 /\ s.set_pc /\ s.cpu # NoCpu /\ pc[0] = GuestPc

\* The configuration of C14: no literal-data field, no file, no force-raw
\* and addr zero; cpu-num and reg are whatever they are.
C14_Config == NoLiteralFields /\ NoImageFields /\ cfg.addr = 0

\* C14: such a configuration fails setup with the MissingRequiredOption
\* error that nothing was asked for, whatever cpu-num and reg are, and the
\* failure comes before the reset action is registered, before the CPU is
\* looked up and before reg is parsed: nothing of these has happened.
C14_NoArgumentsFailsFirst ==
    (SetupDone /\ C14_Config)
        => /\ SetupFailed
           /\ err = "no_arguments"
           /\ err \in MissingRequiredOption
           /\ mode = "none"
           /\ registry = 0
           /\ setupResets = 0
           /\ s.cpu = NoCpu
           /\ \A i \in Regs : ~s.has_register_defaults[i]
C14_Witness ==
    /\ SetupFailed /\ C14_Config /\ err = "no_arguments"
    /\ cfg.cpu_num \notin 0..(numCpus - 1) /\ cfg.cpu_num # CPU_NONE
    /\ cfg.reg = <<"b", "a", "d">>

\* The place of each effect in the order C15 states.
C15_Rank(op) ==
    CASE op = "cpu_reset" -> 0
      [] op = "set_pc" -> 1
      [] op = "gdb_write_register" -> 2
      [] op = "address_space_rw" -> 3

\* C15: in every call of the reset action the effects come in the order
\* CPU reset, program-counter override (to s.addr), register-default
\* writes, literal write; with set_pc the call starts with the CPU reset and
\* the override, without it has neither, and no CPU reset comes after an
\* override.
C15_ResetOrder ==
    /\ \A i, j \in 1..Len(resetLog) :
          i < j => C15_Rank(resetLog[i].op) <= C15_Rank(resetLog[j].op)
    /\ \A i \in 1..Len(resetLog) :
          /\ resetLog[i].op = "cpu_reset" => (i = 1 /\ s.set_pc)
          /\ resetLog[i].op = "set_pc"
                => /\ i = 2 /\ resetLog[1].op = "cpu_reset"
                   /\ resetLog[i].arg = s.addr
C15_Witness ==
    /\ dev = "realized" /\ lastOp = "reset" /\ Len(resetLog) = 3
    /\ resetLog[1].op = "cpu_reset" /\ resetLog[2].op = "set_pc"
    /\ resetLog[3].op = "gdb_write_register"

\* Address a of address space as is one of the data-len bytes at addr of the
\* target CPU's address space.
C16_InRange(as, a) ==
    as = s'.cpu /\ a >= cfg.addr /\ a < cfg.addr + cfg.data_len

\* C16: for a configuration with data-len in 1..8, a step in which the reset
\* action runs (a machine reset, or the setup of a device added to a ready
\* machine) leaves every byte of every address space unchanged but the
\* data-len bytes at addr .. addr+data-len-1 of the target's.
C16_LiteralWriteFrame ==
    [][(lastOp' \in {"reset", "realize"} /\ cfg.data_len \in 1..8)
          => \A as \in AddressSpaces : \A a \in Addrs :
                 ~C16_InRange(as, a) => mem'[as][a] = mem[as][a]]_vars
C16_Witness ==
    /\ dev = "realized" /\ lastOp = "reset" /\ dispatched = 1
    /\ cfg.data_len = 7 /\ cfg.addr = 2 /\ cfg.data = U64Pattern /\ s.cpu = 0
    /\ ReadBack(0, 2, 7) = SubSeq(HostBytes(hostBE, s.data), 1, 7)
    /\ mem[0][1] = 238 /\ mem[0][9] = 238

\* The error kind of the design document for an image no loader could load.
ImageLoadFailure == {"cannot_load_image"}

\* The order in which the loaders are to be tried.
C17_Order ==
    IF cfg.force_raw THEN <<"raw">> ELSE <<"elf", "uimage", "hex", "raw">>

\* C17: the loaders realize has called are, in order, the first ones of
\* elf, uimage, hex, raw, or raw alone under force-raw; each but the last
\* one called returned a negative size, and the last one returned a
\* non-negative size or was the raw loader; realize calls them exactly for
\* an accepted configuration with a file whose CPU lookup did not fail, and
\* sets the ImageLoadFailure error exactly when the last one called returned
\* a negative size.
C17_LoaderSequence ==
    SetupDone
        => /\ Len(loads) <= Len(C17_Order)
           /\ \A i \in 1..Len(loads) :
                 /\ loads[i].name = C17_Order[i]
                 /\ i < Len(loads) => loads[i].size < 0
                 /\ (i = Len(loads) /\ loads[i].size < 0)
                       => loads[i].name = "raw"
           /\ loads # <<>>
                 <=> (cfg.file # NullStr /\ NoLiteralFields /\ CpuResolvable)
           /\ err \in ImageLoadFailure
                 <=> (loads # <<>> /\ loads[Len(loads)].size < 0)
           /\ err \in ImageLoadFailure => SetupFailed
C17_Witness ==
    /\ dev = "realized" /\ ~cfg.force_raw /\ Len(loads) = 3
    /\ loads[1].size < 0 /\ loads[2].size < 0
    /\ loads[3].name = "hex" /\ loads[3].size >= 0

\* The loader that loaded the image: the last one realize called.
C18_Winner == loads[Len(loads)].name

\* C18: after a setup that succeeded having loaded an image, s.addr is the
\* entry point reported by the loader that loaded it if that is the elf,
\* uimage or hex loader, whatever the addr property was, and is the addr
\* property if it is the raw loader; with a cpu-num given, set_pc is set and
\* a call of the reset action resets that CPU and then sets its program
\* counter to s.addr.
C18_EffectiveAddress ==
    (SetupSucceeded /\ loads # <<>>)
        => /\ s.addr = IF C18_Winner = "raw" THEN cfg.addr
                        ELSE Image.entry[C18_Winner]
           /\ cfg.cpu_num # CPU_NONE
                 => /\ s.set_pc /\ s.cpu = cfg.cpu_num
                    /\ (dev = "realized" /\ proc = "running"
                          /\ (lastOp = "reset"
                                \/ (lastOp = "realize" /\ ready)))
                         => /\ pc[s.cpu] = s.addr
                            /\ Len(resetLog) >= 2
                            /\ resetLog[1] = [op |-> "cpu_reset",
                                               arg |-> s.cpu]
                            /\ resetLog[2] = [op |-> "set_pc",
                                               arg |-> s.addr]
C18_Witness ==
    /\ dev = "realized" /\ lastOp = "reset" /\ resetRun = 1 /\ ~ready
    /\ cfg.addr = 2 /\ cfg.cpu_num = 0 /\ loads # <<>>
    /\ C18_Winner = "uimage" /\ s.addr = Image.entry.uimage
    /\ pc[0] = Image.entry.uimage

\* C19: after a setup that succeeded s.cpu is a CPU of the machine, whatever
\* the configuration and however many CPUs the machine has (the first one if
\* cpu-num is unset, the one named if it is set), and set_pc is set only
\* with a CPU resolved.
C19_TargetCpuResolved ==
    SetupSucceeded
        => /\ s.cpu # NoCpu
           /\ s.cpu \in 0..(numCpus - 1)
           /\ s.cpu = (IF cfg.cpu_num = CPU_NONE THEN 0 ELSE cfg.cpu_num)
           /\ s.set_pc => s.cpu # NoCpu

\* The last step called the reset action: a machine reset that dispatched
\* it, or a realize on a ready machine.
C20_ResetInvoked ==
    \/ lastOp = "reset" /\ dispatched >= 1
    \/ lastOp = "realize" /\ setupResets >= 1
\* The reset action has something to do with the CPU.
C20_TouchesCpu ==
    \/ s.set_pc
    \/ s.data_len # 0
    \/ \E i \in Regs : s.has_register_defaults[i]

\* C20: whenever the reset action has been called on a device for which it
\* touches the CPU, the device's s.cpu is not NULL and the call ran to its
\* end; and it is never called on a device whose CPU lookup failed.
C20_ResetHasCpu ==
    /\ (C20_ResetInvoked /\ C20_TouchesCpu)
          => (s.cpu # NoCpu /\ proc # "crashed")
    /\ err = "nonexistent_cpu" => ~C20_ResetInvoked

====
